---- MODULE Spec2Model ----
(***************************************************************************)
(* One virtual user of the enhanced load-test processor: the function      *)
(* connectToMediator with the helpers it calls (MetricsCollector,          *)
(* retryWithBackoff, createTimeout, establishConnection, requestMediation, *)
(* testMessagePickup).  The Agent is an opaque asynchronous collaborator:  *)
(* each of its calls may return, throw or stay pending, and a connection   *)
(* record it created may reach state 'completed' at any later moment.      *)
(* A step of the model is one turn of the Node.js event loop: the handler  *)
(* that an Agent answer, an Agent event or a timer triggers, run up to the *)
(* next await of an Agent call or of a timer.                              *)
(***************************************************************************)
EXTENDS Integers, Sequences, FiniteSets, TLC

VARIABLES
    maxRetries,          \* CONFIG.maxRetries
    performanceLogging,  \* CONFIG.performanceLogging
    doneIsFunction,      \* typeof done === 'function'
    pc,                  \* the await connectToMediator is suspended at
    agent,               \* the local `agent` is non-null
    stage,               \* stage whose retryWithBackoff loop is running
    attempt,             \* loop variable of retryWithBackoff
    armed,               \* a timer of the current await is pending
    timer,               \* ms left on that timer
    elapsed,             \* ms since the current attempt called the Agent
    sinceStart,          \* ms since startMediation() / startPickup()
    conns,               \* ids of connection records not yet 'completed'
    connectionRecord,    \* value establishConnection returned (0: undefined)
    emitted,             \* names given to events.emit, in order
    errors,              \* metrics.errors (the types)
    doneCalls,           \* arguments of the calls of done, in order
    rejects,             \* connectToMediator's promise is (to be) rejected
    shutdowns,           \* number of calls of agent.shutdown()
    shutdownFailed,      \* agent.shutdown() threw
    calls,               \* per stage: invocations of the Agent operation
    waits,               \* per stage: the backoff delays waited, in order
    results,             \* per stage: "none", "ok" (returned), "failed" (threw)
    timeouts,            \* per stage: attempts that ended by their timeout
    abandoned,           \* Agent calls still pending after their timeout
    raised,              \* per stage: the error retryWithBackoff threw
    invitationUrlSet,    \* process.env.INVITATION_URL is set
    module,              \* the processor module: "unloaded", "loaded", "failed"
    runs,                \* the runs of connectToMediator Artillery started
    totals,              \* per counter name: the sum Artillery keeps
    now,                 \* Date.now()
    walletIds,           \* the walletId of each run started, in order
    config,              \* the object generateConfig / createCustomTest returned
    file,                \* the content of the configuration file
    loaded,              \* what loadConfig returned or threw
    artillery,           \* the phases Artillery was started with
    basic,               \* the run of connectToMediator of tests/processor.js
    nodeOptions,         \* the tokens of the environment variable NODE_OPTIONS
    launches,            \* number of times run-artillery.sh started Node
    aggregate,           \* the `aggregate` of the Artillery results file
    analysis,            \* what TestReporter.analyzeResults returned
    tempFile,            \* the file temp-<timestamp>.yml exists
    cli,                 \* the cli process: "idle", "completed", "exited"
    monitoring,          \* PerformanceMonitor.monitoring
    loops,               \* the calls of monitorLoop: where each one is
    samples,             \* PerformanceMonitor.data.length
    saved                \* number of samples in the output file

cfgvars == <<maxRetries, performanceLogging, doneIsFunction>>
vars == <<maxRetries, performanceLogging, doneIsFunction, pc, agent, stage,
          attempt, armed, timer, elapsed, sinceStart, conns, connectionRecord,
          emitted,
          errors, doneCalls, rejects, shutdowns, shutdownFailed, calls, waits,
          results, timeouts, abandoned, raised,
          invitationUrlSet, module, runs, totals, now, walletIds,
          config, file, loaded, artillery, basic,
          nodeOptions, launches, aggregate, analysis, tempFile, cli,
          monitoring, loops, samples, saved>>

\* the variables of one run of the enhanced processor
runvars == <<pc, agent, stage, attempt, armed, timer, elapsed, sinceStart, conns,
             connectionRecord, emitted, errors, doneCalls, rejects, shutdowns,
             shutdownFailed, calls, waits, results, timeouts, abandoned, raised>>
\* the processor module and the runs Artillery executes concurrently
concvars == <<invitationUrlSet, module, runs, totals>>
\* the wallet ids
idvars == <<now, walletIds>>
\* ConfigManager and the test command
cmvars == <<config, file, loaded, artillery>>
\* run-artillery.sh
wrapvars == <<nodeOptions, launches>>
\* TestReporter
reportvars == <<aggregate, analysis>>
\* the process of cli.js
clivars == <<tempFile, cli>>
\* PerformanceMonitor
monvars == <<monitoring, loops, samples, saved>>
toolvars == <<wrapvars, reportvars, clivars, monvars>>

---------------------------------------------------------------------------
(* Bounds of the model *)

\* values of the MAX_RETRIES environment variable: -MaxNegRetriesEnv..MaxRetriesEnv
MaxNegRetriesEnv == 1
MaxRetriesEnv == 2
\* time advances by at most TickMs per step, never past a pending timer
TickMs == 5000
\* an Agent call that no timer bounds is followed for at most MaxElapsed ms
MaxElapsed == 20000

(* Program constants (defaults of CONFIG and of retryWithBackoff) *)
connectionTimeout == 15000
mediationTimeout == 10000
pickupTimeout == 5000
DefaultMaxRetries == 3
baseDelay == 1000

Stages == {"connection", "mediation", "pickup"}

\* parseInt(process.env.MAX_RETRIES) || 3 : NaN (unset) and 0 give the default
ConfigMaxRetries(isSet, v) == IF ~isSet \/ v = 0 THEN DefaultMaxRetries ELSE v

Min(a, b) == IF a <= b THEN a ELSE b

RECURSIVE Pow2(_)
Pow2(n) == IF n <= 0 THEN 1 ELSE 2 * Pow2(n - 1)

Count(seq, name) == Cardinality({i \in DOMAIN seq : seq[i] = name})

\* the state of the run as one value, so that a handler is a function on it
State == [pc |-> pc, agent |-> agent, stage |-> stage, attempt |-> attempt,
          armed |-> armed, timer |-> timer, elapsed |-> elapsed,
          sinceStart |-> sinceStart, conns |-> conns,
          connectionRecord |-> connectionRecord, emitted |-> emitted,
          errors |-> errors, doneCalls |-> doneCalls, rejects |-> rejects,
          shutdowns |-> shutdowns, shutdownFailed |-> shutdownFailed,
          calls |-> calls, waits |-> waits, results |-> results,
          timeouts |-> timeouts, abandoned |-> abandoned,
          raised |-> raised]

Set(s) ==
    /\ pc' = s.pc /\ agent' = s.agent /\ stage' = s.stage
    /\ attempt' = s.attempt /\ armed' = s.armed /\ timer' = s.timer
    /\ elapsed' = s.elapsed /\ sinceStart' = s.sinceStart /\ conns' = s.conns
    /\ connectionRecord' = s.connectionRecord /\ emitted' = s.emitted
    /\ errors' = s.errors /\ doneCalls' = s.doneCalls /\ rejects' = s.rejects
    /\ shutdowns' = s.shutdowns /\ shutdownFailed' = s.shutdownFailed
    /\ calls' = s.calls /\ waits' = s.waits /\ results' = s.results
    /\ timeouts' = s.timeouts /\ abandoned' = s.abandoned
    /\ raised' = s.raised
    /\ UNCHANGED <<cfgvars, concvars, idvars, cmvars, basic, toolvars>>

NoError == [kind |-> "none", attempt |-> 0]

---------------------------------------------------------------------------
(* MetricsCollector *)

emitMetric(s, name) ==
    IF performanceLogging THEN [s EXCEPT !.emitted = Append(@, name)] ELSE s

emitCounter(s, name) ==
    IF performanceLogging THEN [s EXCEPT !.emitted = Append(@, name)] ELSE s

endConnection(s) ==
    emitCounter(emitMetric(s, "didcomm.connection.duration"),
                "didcomm.connection.success")

endMediation(s) ==
    emitCounter(emitMetric(s, "didcomm.mediation.duration"),
                "didcomm.mediation.success")

endPickup(s) ==
    emitCounter(emitMetric(s, "didcomm.pickup.duration"),
                "didcomm.pickup.success")

recordError(s, type) ==
    emitCounter([s EXCEPT !.errors = Append(@, type)],
                "didcomm." \o type \o ".failed")

---------------------------------------------------------------------------
(* connectToMediator: the end of the try block, the catch and the finally *)

\* the end of finally: done() when done is a function; the function settles
finallyDone(s) ==
    [s EXCEPT !.pc = "finished", !.armed = FALSE, !.timer = 0, !.elapsed = 0,
              !.sinceStart = 0,
              !.doneCalls = IF doneIsFunction THEN Append(@, "none") ELSE @]

\* finally: shutdown of the agent when there is one (awaited), then done()
finallyBlock(s) ==
    IF s.agent
    THEN [s EXCEPT !.pc = "shutting_down", !.shutdowns = @ + 1,
                   !.armed = FALSE, !.timer = 0, !.elapsed = 0,
                   !.sinceStart = 0]
    ELSE finallyDone(s)

\* variant of shutdownCatch: the shutdown failure escapes the finally block
shutdownCatchRethrows(s) == [s EXCEPT !.shutdownFailed = TRUE, !.rejects = TRUE]

\* catch (shutdownError): the failure of agent.shutdown() is logged
shutdownCatch(s) == [s EXCEPT !.shutdownFailed = TRUE]

\* variant of catchBlock: the error is thrown again even when done took it
catchBlockAlwaysThrows(s) ==
    LET r == emitCounter(recordError(s, "test"), "didcomm.test.failed") IN
    IF doneIsFunction
    THEN finallyBlock([r EXCEPT !.doneCalls = Append(@, "error"), !.rejects = TRUE])
    ELSE finallyBlock([r EXCEPT !.rejects = TRUE])

\* catch (error): the failure is recorded, handed to done or thrown again
catchBlock(s) ==
    LET r == emitCounter(recordError(s, "test"), "didcomm.test.failed") IN
    IF doneIsFunction
    THEN finallyBlock([r EXCEPT !.doneCalls = Append(@, "error")])
    ELSE finallyBlock([r EXCEPT !.rejects = TRUE])

\* the try block after the pickup stage: final metrics
tryEnd(s) ==
    finallyBlock(emitCounter(emitMetric(s, "didcomm.test.total_duration"),
                             "didcomm.test.success"))

---------------------------------------------------------------------------
(* createTimeout, the three operations given to retryWithBackoff *)

\* setTimeout(..., ms): the timer of the current await
createTimeout(s, ms) == [s EXCEPT !.armed = TRUE, !.timer = ms]

\* connectionPromise up to its first await: the Agent's connect operation is
\* called; no timer runs while it is pending
connectionPromise(s) ==
    [s EXCEPT !.pc = "connecting", !.calls["connection"] = @ + 1,
              !.elapsed = 0, !.armed = FALSE, !.timer = 0]

\* variant of mediationPromise: the Agent call is awaited without the race
mediationPromiseNoTimeout(s) ==
    [s EXCEPT !.pc = "mediating", !.calls["mediation"] = @ + 1,
              !.elapsed = 0, !.armed = FALSE, !.timer = 0]

\* mediationPromise up to its await: the Agent call raced with a timeout
mediationPromise(s) ==
    createTimeout([s EXCEPT !.pc = "mediating", !.calls["mediation"] = @ + 1,
                            !.elapsed = 0], mediationTimeout)

\* pickupPromise up to its await: the Agent call raced with a timeout
pickupPromise(s) ==
    createTimeout([s EXCEPT !.pc = "picking", !.calls["pickup"] = @ + 1,
                            !.elapsed = 0], pickupTimeout)

\* fn() of the running retryWithBackoff loop
fn(s) ==
    CASE s.stage = "connection" -> connectionPromise(s)
      [] s.stage = "mediation" -> mediationPromise(s)
      [] s.stage = "pickup" -> pickupPromise(s)

---------------------------------------------------------------------------
(* retryWithBackoff and the stages of connectToMediator *)

RECURSIVE retryWithBackoff(_, _)
RECURSIVE stageReturned(_, _)
RECURSIVE requestMediation(_)
RECURSIVE testMessagePickup(_)

\* the loop is entered: the first attempt, or no attempt at all when
\* maxRetries < 1 (the function then returns undefined)
retryWithBackoff(s, st) ==
    LET r == [s EXCEPT !.stage = st, !.attempt = 1] IN
    IF r.attempt <= maxRetries THEN fn(r) ELSE stageReturned(r, 0)

establishConnection(s) == retryWithBackoff(s, "connection")

\* metrics.startMediation(), then the retry loop
requestMediation(s) ==
    retryWithBackoff([s EXCEPT !.sinceStart = 0], "mediation")

\* metrics.startPickup(), then the retry loop
testMessagePickup(s) ==
    retryWithBackoff([s EXCEPT !.sinceStart = 0], "pickup")

\* connectToMediator resumes after the await of a stage that returned `value`
stageReturned(s, value) ==
    LET r == [s EXCEPT !.results[s.stage] = "ok"] IN
    CASE s.stage = "connection" ->
            requestMediation([r EXCEPT !.connectionRecord = value])
      [] s.stage = "mediation" -> testMessagePickup(r)
      [] s.stage = "pickup" -> tryEnd(r)

\* variant of stageThrew: a mediation failure is swallowed like a pickup one
stageThrewMediationNotFatal(s, kind) ==
    LET r == [s EXCEPT !.results[s.stage] = "failed",
                       !.raised[s.stage] = [kind |-> kind, attempt |-> s.attempt]]
    IN IF s.stage \in {"pickup", "mediation"}
       THEN tryEnd(recordError(r, s.stage))
       ELSE catchBlock(r)

\* variant of stageThrew: the pickup error is not swallowed
stageThrewPickupFatal(s, kind) ==
    LET r == [s EXCEPT !.results[s.stage] = "failed",
                       !.raised[s.stage] = [kind |-> kind, attempt |-> s.attempt]]
    IN IF s.stage = "pickup"
       THEN catchBlock(recordError(r, "pickup"))
       ELSE catchBlock(r)

\* retryWithBackoff threw: the pickup error is recorded by testMessagePickup
\* and swallowed by connectToMediator, any other error reaches its catch
stageThrew(s, kind) ==
    LET r == [s EXCEPT !.results[s.stage] = "failed",
                       !.raised[s.stage] = [kind |-> kind, attempt |-> s.attempt]]
    IN IF s.stage = "pickup"
       THEN tryEnd(recordError(r, "pickup"))
       ELSE catchBlock(r)

\* variant of retryCatch: the exponent of the delay is attempt, not attempt - 1
retryCatchWrongDelay(s, kind) ==
    IF s.attempt = maxRetries
    THEN stageThrew(s, kind)
    ELSE LET delay == baseDelay * Pow2(s.attempt) IN
         createTimeout([s EXCEPT !.pc = "backoff", !.elapsed = 0,
                                 !.waits[s.stage] = Append(@, delay)], delay)

\* catch of retryWithBackoff: the last attempt throws, another one backs off
retryCatch(s, kind) ==
    IF s.attempt = maxRetries
    THEN stageThrew(s, kind)
    ELSE LET delay == baseDelay * Pow2(s.attempt - 1) IN
         createTimeout([s EXCEPT !.pc = "backoff", !.elapsed = 0,
                                 !.waits[s.stage] = Append(@, delay)], delay)

\* the timer raced with the Agent call fires first: the attempt is rejected
\* with the timeout error
timeoutRejects(s) ==
    retryCatch([s EXCEPT !.timeouts[s.stage] = @ + 1,
                         !.abandoned = IF s.stage = "connection" THEN @ ELSE @ + 1],
               "timeout")

\* variant of lateAnswer: the late answer runs the rest of the attempt
lateAnswerEmits(s) ==
    LET r == [s EXCEPT !.abandoned = @ - 1] IN
    IF s.timeouts["pickup"] > 0 THEN endPickup(r) ELSE endMediation(r)

\* an Agent call answers (returns or throws) after its timeout rejected the
\* race: the settled race ignores it and the attempt does not resume
lateAnswer(s) == [s EXCEPT !.abandoned = @ - 1]

\* the backoff delay is over: attempt++ and the loop condition
retryNext(s) ==
    LET r == [s EXCEPT !.attempt = @ + 1] IN
    IF r.attempt <= maxRetries THEN fn(r) ELSE stageReturned(r, 0)

\* variant of invitationProcessed: the record is returned without waiting
\* for its state 'completed'
invitationProcessedNoWait(s, completed) ==
    IF completed
    THEN stageReturned(endConnection(s), s.attempt)
    ELSE stageReturned([s EXCEPT !.conns = @ \cup {s.attempt}], s.attempt)

\* connectionPromise after receiveInvitationFromUrl returned the record of
\* this attempt: resolved at once when it is 'completed' (the state change
\* was then already seen by the listener of setupEventListeners), else a
\* listener and the completion timeout are set
invitationProcessed(s, completed) ==
    IF completed
    THEN stageReturned(endConnection(s), s.attempt)
    ELSE createTimeout([s EXCEPT !.pc = "waiting",
                                 !.conns = @ \cup {s.attempt}],
                       connectionTimeout)

\* connectionPromise after receiveInvitationFromUrl returned a record object
\* that shows an earlier state although the connection reached 'completed'
\* while the call was pending (the listener of setupEventListeners saw the
\* event; the one of the attempt is registered only now and no further
\* event will come)
invitationProcessedStale(s) ==
    createTimeout([endConnection(s) EXCEPT !.pc = "waiting"], connectionTimeout)

\* ConnectionStateChanged with state 'completed' for record c: the listener
\* of setupEventListeners, then the listener of the attempt waiting for c
onConnectionStateChanged(s, c) ==
    LET r == endConnection([s EXCEPT !.conns = @ \ {c}]) IN
    IF s.pc = "waiting" /\ s.attempt = c
    THEN stageReturned([r EXCEPT !.armed = FALSE, !.timer = 0], c)
    ELSE r

---------------------------------------------------------------------------
(* The runs Artillery starts, the counters it sums *)

\* number of runs of connectToMediator Artillery starts
NumRuns == 2
Runs == 1..NumRuns

Counters == {"didcomm.connection.success", "didcomm.mediation.success",
             "didcomm.pickup.success", "didcomm.pickup.failed",
             "didcomm.test.success", "didcomm.test.failed"}

---------------------------------------------------------------------------
(* ConfigManager: the values *)

NoName == [testType |-> "", wallets |-> 0]
NoConfig == [hasConfig |-> FALSE, hasScenarios |-> FALSE, phases |-> <<>>,
             name |-> NoName]
NoFile == [exists |-> FALSE, content |-> NoConfig]
NotLoaded == [status |-> "none", content |-> NoConfig]
NotRunning == [started |-> FALSE, phases |-> <<>>]

\* createCustomTest's default of rampDuration
DefaultRampDuration == 30

\* values of --duration, --rate and --wallets after parseInt
MaxDuration == 2
MaxRate == 2
MaxWallets == 2

TestTypes == {"custom", "ramp", "burst", "spike", "stress"}

\* a phase without rampTo
Flat(duration, arrivalRate) ==
    [duration |-> duration, arrivalRate |-> arrivalRate, ramped |-> FALSE,
     rampTo |-> arrivalRate]

\* a phase with rampTo
Ramp(duration, arrivalRate, rampTo) ==
    [duration |-> duration, arrivalRate |-> arrivalRate, ramped |-> TRUE,
     rampTo |-> rampTo]

\* generateConfig: the phases are taken as given, the default scenario is
\* added when no scenario is given
generateConfig(name, phases) ==
    [hasConfig |-> TRUE, hasScenarios |-> TRUE, phases |-> phases, name |-> name]

\* createCustomTest: the phases of the test type; `wallets` goes into the
\* name of the scenario
createCustomTest(wallets, duration, rate, rampDuration, testType) ==
    LET phases ==
          CASE testType = "ramp" ->
                 <<Ramp(rampDuration, 1, rate), Flat(duration, rate),
                   Ramp(rampDuration, rate, 1)>>
            [] testType = "burst" ->
                 <<Flat(5, 1), Flat(10, rate * 5), Flat(duration, 0)>>
            [] testType = "spike" ->
                 <<Flat(10, 1), Flat(5, rate * 10), Flat(30, 0),
                   Flat(5, rate * 8), Flat(duration, 0)>>
            [] OTHER -> <<Flat(duration, rate)>>
    IN generateConfig([testType |-> testType, wallets |-> wallets], phases)

\* saveConfig: the YAML document written holds the object
saveConfig(c) == [exists |-> TRUE, content |-> c]

\* loadConfig: the file must exist and have the keys config and scenarios
loadConfig(f) ==
    IF ~f.exists THEN [status |-> "error", content |-> NoConfig]
    ELSE IF ~f.content.hasConfig \/ ~f.content.hasScenarios
         THEN [status |-> "error", content |-> NoConfig]
         ELSE [status |-> "ok", content |-> f.content]

---------------------------------------------------------------------------
(* TestReporter: the values *)

\* the counters the reporter reads; one that is absent reads as 0
CounterKeys == Counters \cup {"vusers.completed", "vusers.failed"}

\* a quotient, kept as numerator and denominator
Rate(num, den) == [num |-> num, den |-> den]

NoAggregate ==
    [counters |-> [k \in CounterKeys |-> 0],
     connection |-> [present |-> FALSE, p95 |-> 0]]

NoAnalysis ==
    [generated |-> FALSE, successRate |-> Rate(0, 1), errorRate |-> Rate(0, 1),
     pickupSuccessRate |-> Rate(0, 1), overallSuccessRate |-> Rate(0, 1),
     recommendations |-> <<>>]

\* a connection P95 above this many ms is recommended against
HighLatency == 10000

\* calculateRate: success / (success + failed), 0 when both are 0 or absent
calculateRate(success, failed) ==
    LET total == success + failed IN
    IF total > 0 THEN Rate(success, total) ELSE Rate(0, 1)

calculateSuccessRate(counters) ==
    LET completed == counters["vusers.completed"]
        failed == counters["vusers.failed"]
        total == completed + failed
    IN IF total > 0 THEN Rate(completed, total) ELSE Rate(0, 1)

calculateErrorRate(counters) ==
    LET completed == counters["vusers.completed"]
        failed == counters["vusers.failed"]
        total == completed + failed
    IN IF total > 0 THEN Rate(failed, total) ELSE Rate(0, 1)

\* rate < percent / 100 and rate > percent / 100
Below(rate, percent) == rate.num * 100 < percent * rate.den
Above(rate, percent) == rate.num * 100 > percent * rate.den

\* generateRecommendations: the types of the recommendations, in order
generateRecommendations(an, connection) ==
    (IF Below(an.successRate, 95) THEN <<"performance">> ELSE <<>>)
    \o (IF connection.present /\ connection.p95 > HighLatency
        THEN <<"latency">> ELSE <<>>)
    \o (IF Below(an.pickupSuccessRate, 90) THEN <<"didcomm">> ELSE <<>>)
    \o (IF Above(an.errorRate, 10) THEN <<"errors">> ELSE <<>>)

\* analyzeResults: analyzePerformance, analyzeDIDCommMetrics, analyzeErrors,
\* then the recommendations
analyzeResults(agg) ==
    LET an == [generated |-> TRUE,
               successRate |-> calculateSuccessRate(agg.counters),
               errorRate |-> calculateErrorRate(agg.counters),
               pickupSuccessRate |->
                   calculateRate(agg.counters["didcomm.pickup.success"],
                                 agg.counters["didcomm.pickup.failed"]),
               overallSuccessRate |->
                   calculateRate(agg.counters["didcomm.test.success"],
                                 agg.counters["didcomm.test.failed"]),
               recommendations |-> <<>>]
    IN [an EXCEPT !.recommendations = generateRecommendations(an, agg.connection)]

---------------------------------------------------------------------------
(* tests/processor.js: connectToMediator is called *)

BasicStart ==
    [pc |-> "initializing", events |-> TRUE, agent |-> FALSE,
     completed |-> FALSE,
     connectionRecord |-> FALSE, armed |-> FALSE, timer |-> 0,
     connection |-> "none", mediation |-> "none", pickup |-> "none",
     threw |-> "none", emitted |-> <<>>, doneCalls |-> <<>>,
     rejects |-> FALSE, shutdowns |-> 0]

---------------------------------------------------------------------------
(* Initial states and steps *)

\* the configuration read from the environment when the module is loaded
CfgInit ==
    /\ \E isSet \in BOOLEAN, v \in (0 - MaxNegRetriesEnv)..MaxRetriesEnv :
          maxRetries = ConfigMaxRetries(isSet, v)
    /\ performanceLogging \in BOOLEAN
    /\ doneIsFunction \in BOOLEAN

\* the configuration when the environment sets none of the three
CfgDefault ==
    /\ maxRetries = ConfigMaxRetries(FALSE, 0)
    /\ performanceLogging = TRUE
    /\ doneIsFunction = TRUE

\* connectToMediator is called: its locals and its MetricsCollector
InitialRun ==
    [pc |-> "initializing", agent |-> FALSE, stage |-> "connection",
     attempt |-> 0, armed |-> FALSE, timer |-> 0, elapsed |-> 0,
     sinceStart |-> 0, conns |-> {},
     connectionRecord |-> 0, emitted |-> <<>>, errors |-> <<>>,
     doneCalls |-> <<>>, rejects |-> FALSE, shutdowns |-> 0,
     shutdownFailed |-> FALSE, calls |-> [st \in Stages |-> 0],
     waits |-> [st \in Stages |-> <<>>], results |-> [st \in Stages |-> "none"],
     timeouts |-> [st \in Stages |-> 0], abandoned |-> 0,
     raised |-> [st \in Stages |-> NoError]]

\* a run Artillery has not started yet
NotStarted == [InitialRun EXCEPT !.pc = "idle"]

RunStart ==
    /\ pc = InitialRun.pc
    /\ agent = InitialRun.agent
    /\ stage = InitialRun.stage
    /\ attempt = InitialRun.attempt
    /\ armed = InitialRun.armed
    /\ timer = InitialRun.timer
    /\ elapsed = InitialRun.elapsed
    /\ sinceStart = InitialRun.sinceStart
    /\ conns = InitialRun.conns
    /\ connectionRecord = InitialRun.connectionRecord
    /\ emitted = InitialRun.emitted
    /\ errors = InitialRun.errors
    /\ doneCalls = InitialRun.doneCalls
    /\ rejects = InitialRun.rejects
    /\ shutdowns = InitialRun.shutdowns
    /\ shutdownFailed = InitialRun.shutdownFailed
    /\ calls = InitialRun.calls
    /\ waits = InitialRun.waits
    /\ results = InitialRun.results
    /\ timeouts = InitialRun.timeouts
    /\ abandoned = InitialRun.abandoned
    /\ raised = InitialRun.raised

\* the module is loaded with its configuration and Artillery runs nothing else
ConcLoaded ==
    /\ invitationUrlSet = TRUE
    /\ module = "loaded"
    /\ runs = [i \in Runs |-> NotStarted]
    /\ totals = [n \in Counters |-> 0]

IdsStart == now = 0 /\ walletIds = <<>>

CmStart ==
    /\ config = NoConfig
    /\ file = NoFile
    /\ loaded = NotLoaded
    /\ artillery = NotRunning

WrapStart == nodeOptions = <<>> /\ launches = 0

ReportStart == aggregate = NoAggregate /\ analysis = NoAnalysis

CliStart == tempFile = FALSE /\ cli = "idle"

MonStart == monitoring = FALSE /\ loops = <<>> /\ samples = 0 /\ saved = 0

ToolStart == WrapStart /\ ReportStart /\ CliStart /\ MonStart

\* one run of connectToMediator in a loaded module
Init ==
    /\ CfgInit
    /\ RunStart
    /\ ConcLoaded
    /\ IdsStart
    /\ CmStart
    /\ basic = BasicStart
    /\ ToolStart

InitializeAgentReturns ==
    /\ pc = "initializing"
    /\ Set(establishConnection([State EXCEPT !.agent = TRUE]))

InitializeAgentThrows ==
    /\ pc = "initializing"
    /\ Set(catchBlock(State))

ReceiveInvitationReturns ==
    /\ pc = "connecting"
    /\ \E completed \in BOOLEAN : Set(invitationProcessed(State, completed))

\* the Agent hands out the record object it made when it accepted the
\* invitation; state changes are announced with objects of their own
ReceiveInvitationReturnsStale ==
    /\ pc = "connecting"
    /\ Set(invitationProcessedStale(State))

ReceiveInvitationThrows ==
    /\ pc = "connecting"
    /\ Set(retryCatch(State, "error"))

\* the Agent delivers events until agent.shutdown() is called
ConnectionStateChanged ==
    /\ pc \notin {"shutting_down", "finished"}
    /\ \E c \in conns : Set(onConnectionStateChanged(State, c))

ConnectionCompletionTimeout ==
    /\ pc = "waiting" /\ armed /\ timer = 0
    /\ Set(timeoutRejects(State))

MediationReturns ==
    /\ pc = "mediating"
    /\ Set(stageReturned(endMediation(State), 1))

MediationThrows ==
    /\ pc = "mediating"
    /\ Set(retryCatch(State, "error"))

MediationTimeout ==
    /\ pc = "mediating" /\ armed /\ timer = 0
    /\ Set(timeoutRejects(State))

PickupReturns ==
    /\ pc = "picking"
    /\ Set(stageReturned(endPickup(State), 1))

PickupThrows ==
    /\ pc = "picking"
    /\ Set(retryCatch(State, "error"))

PickupTimeout ==
    /\ pc = "picking" /\ armed /\ timer = 0
    /\ Set(timeoutRejects(State))

LateAnswer ==
    /\ pc # "finished" /\ abandoned > 0
    /\ Set(lateAnswer(State))

BackoffElapsed ==
    /\ pc = "backoff" /\ armed /\ timer = 0
    /\ Set(retryNext(State))

ShutdownReturns ==
    /\ pc = "shutting_down"
    /\ Set(finallyDone(State))

ShutdownThrows ==
    /\ pc = "shutting_down"
    /\ Set(finallyDone(shutdownCatch(State)))

\* time passes while the run awaits: up to the pending timer, which then
\* fires before any more time passes
Tick ==
    /\ pc \in {"connecting", "waiting", "mediating", "picking", "backoff"}
    /\ IF armed THEN timer > 0 ELSE elapsed < MaxElapsed
    /\ LET d == IF armed THEN Min(TickMs, timer) ELSE TickMs IN
       /\ timer' = IF armed THEN timer - d ELSE timer
       /\ elapsed' = IF pc = "backoff" THEN 0 ELSE elapsed + d
       /\ sinceStart' = IF stage \in {"mediation", "pickup"}
                         THEN sinceStart + d ELSE sinceStart
    /\ UNCHANGED <<pc, agent, stage, attempt, armed, conns, connectionRecord,
                   emitted, errors, doneCalls, rejects, shutdowns,
                   shutdownFailed, calls, waits, results, timeouts, abandoned, raised>>
    /\ UNCHANGED <<cfgvars, concvars, idvars, cmvars, basic, toolvars>>

Next ==
    \/ InitializeAgentReturns
    \/ InitializeAgentThrows
    \/ ReceiveInvitationReturns
    \/ ReceiveInvitationReturnsStale
    \/ ReceiveInvitationThrows
    \/ ConnectionStateChanged
    \/ ConnectionCompletionTimeout
    \/ MediationReturns
    \/ MediationThrows
    \/ MediationTimeout
    \/ PickupReturns
    \/ PickupThrows
    \/ PickupTimeout
    \/ LateAnswer
    \/ BackoffElapsed
    \/ ShutdownReturns
    \/ ShutdownThrows
    \/ Tick

Spec == Init /\ [][Next]_vars

\* Node.js runs a timer's callback once its delay is over, and time passes
FairSpec ==
    /\ Spec
    /\ WF_vars(Tick)
    /\ WF_vars(ConnectionCompletionTimeout)
    /\ WF_vars(MediationTimeout)
    /\ WF_vars(PickupTimeout)
    /\ WF_vars(BackoffElapsed)

TypeOK ==
    /\ pc \in {"initializing", "connecting", "waiting", "mediating",
               "picking", "backoff", "shutting_down", "finished"}
    /\ stage \in Stages
    /\ timer >= 0 /\ elapsed >= 0
    /\ Len(emitted) <= 20

---------------------------------------------------------------------------
(* The processor module and concurrent runs of connectToMediator.  Artillery *)
(* requires the module once, then calls connectToMediator for each virtual  *)
(* user it starts; the runs interleave at their awaits.  Here the Agent     *)
(* answers every call but the pickup, which stays pending, unless it fails  *)
(* to initialize.  When every run has finished the results are reported.    *)

\* variant of loadProcessor: the module loads without checking INVITATION_URL
loadProcessorUnchecked(urlSet) == "loaded"

\* the top level of the module: CONFIG is built, a missing INVITATION_URL throws
loadProcessor(urlSet) == IF urlSet THEN "loaded" ELSE "failed"

\* connectToMediator is called: it runs up to the await of initializeAgent
arrive(s) == [s EXCEPT !.pc = "initializing"]

Active(i) == runs[i].pc \notin {"idle", "finished"}

\* variant of Summed: a counter holds the count of the run that emitted last
SummedPerRun(old, new) ==
    [n \in Counters |->
        IF Count(new.emitted, n) > Count(old.emitted, n)
        THEN Count(new.emitted, n) ELSE totals[n]]

\* events.emit('counter', name, 1): Artillery adds 1 to the counter `name`
Summed(old, new) ==
    [n \in Counters |->
        totals[n] + Count(new.emitted, n) - Count(old.emitted, n)]

\* run i takes the step that leaves it in s
SetRun(i, s) ==
    /\ runs' = [runs EXCEPT ![i] = s]
    /\ totals' = Summed(runs[i], s)
    /\ UNCHANGED <<invitationUrlSet, module>>
    /\ UNCHANGED <<cfgvars, runvars, idvars, cmvars, basic, toolvars>>

ConcInit ==
    /\ CfgInit
    /\ RunStart
    /\ invitationUrlSet \in BOOLEAN
    /\ module = "unloaded"
    /\ runs = [i \in Runs |-> NotStarted]
    /\ totals = [n \in Counters |-> 0]
    /\ IdsStart
    /\ CmStart
    /\ basic = BasicStart
    /\ ToolStart

LoadProcessor ==
    /\ module = "unloaded"
    /\ module' = loadProcessor(invitationUrlSet)
    /\ UNCHANGED <<invitationUrlSet, runs, totals>>
    /\ UNCHANGED <<cfgvars, runvars, idvars, cmvars, basic, toolvars>>

\* Artillery starts a virtual user: the runs are numbered in the order of
\* their starts
Arrive(i) ==
    /\ module = "loaded"
    /\ runs[i].pc = "idle"
    /\ \A j \in Runs : j < i => runs[j].pc # "idle"
    /\ SetRun(i, arrive(runs[i]))

RunInitializeAgentReturns(i) ==
    /\ runs[i].pc = "initializing"
    /\ SetRun(i, establishConnection([runs[i] EXCEPT !.agent = TRUE]))

RunInitializeAgentThrows(i) ==
    /\ runs[i].pc = "initializing"
    /\ SetRun(i, catchBlock(runs[i]))

RunReceiveInvitationReturns(i) ==
    /\ runs[i].pc = "connecting"
    /\ \E completed \in BOOLEAN :
          SetRun(i, invitationProcessed(runs[i], completed))

RunConnectionStateChanged(i) ==
    /\ runs[i].pc \notin {"idle", "shutting_down", "finished"}
    /\ \E c \in runs[i].conns : SetRun(i, onConnectionStateChanged(runs[i], c))

RunMediationReturns(i) ==
    /\ runs[i].pc = "mediating"
    /\ SetRun(i, stageReturned(endMediation(runs[i]), 1))

RunPickupTimeout(i) ==
    /\ runs[i].pc = "picking" /\ runs[i].armed /\ runs[i].timer = 0
    /\ SetRun(i, timeoutRejects(runs[i]))

RunBackoffElapsed(i) ==
    /\ runs[i].pc = "backoff" /\ runs[i].armed /\ runs[i].timer = 0
    /\ SetRun(i, retryNext(runs[i]))

RunShutdownReturns(i) ==
    /\ runs[i].pc = "shutting_down"
    /\ SetRun(i, finallyDone(runs[i]))

RunShutdownThrows(i) ==
    /\ runs[i].pc = "shutting_down"
    /\ SetRun(i, finallyDone(shutdownCatch(runs[i])))

\* the runs with a pending timer
Timed == {i \in Runs : Active(i) /\ runs[i].armed}

RECURSIVE MinTimer(_)
MinTimer(S) ==
    LET i == CHOOSE j \in S : TRUE IN
    IF S = {i} THEN runs[i].timer ELSE Min(runs[i].timer, MinTimer(S \ {i}))

\* time passes for every run, up to the first pending timer
ConcTick ==
    /\ Timed # {}
    /\ \A i \in Timed : runs[i].timer > 0
    /\ LET d == Min(TickMs, MinTimer(Timed)) IN
       runs' = [i \in Runs |->
                  IF i \in Timed
                  THEN [runs[i] EXCEPT !.timer = @ - d,
                                       !.sinceStart =
                                           IF runs[i].stage \in {"mediation", "pickup"}
                                           THEN @ + d ELSE @,
                                       !.elapsed = IF runs[i].pc = "backoff"
                                                   THEN 0 ELSE @ + d]
                  ELSE runs[i]]
    /\ UNCHANGED <<invitationUrlSet, module, totals>>
    /\ UNCHANGED <<cfgvars, runvars, idvars, cmvars, basic, toolvars>>

\* Artillery counts a virtual user as failed when the function handed an
\* error to done or rejected, and as completed otherwise
VuserFailed(i) ==
    \/ runs[i].rejects
    \/ \E k \in 1..Len(runs[i].doneCalls) : runs[i].doneCalls[k] = "error"

\* the aggregate of the results file Artillery writes: the summed counters
Collected ==
    [counters |->
        [k \in CounterKeys |->
            IF k = "vusers.failed"
            THEN Cardinality({i \in Runs : VuserFailed(i)})
            ELSE IF k = "vusers.completed"
            THEN Cardinality({i \in Runs : ~VuserFailed(i)})
            ELSE totals[k]],
     connection |-> [present |-> FALSE, p95 |-> 0]]

\* `report <file>` once the test has ended: generateEnhancedReport
ReportRuns ==
    /\ \A i \in Runs : runs[i].pc = "finished"
    /\ ~analysis.generated
    /\ aggregate' = Collected
    /\ analysis' = analyzeResults(Collected)
    /\ UNCHANGED concvars
    /\ UNCHANGED <<cfgvars, runvars, idvars, cmvars, basic>>
    /\ UNCHANGED <<wrapvars, clivars, monvars>>

ConcNext ==
    \/ LoadProcessor
    \/ ReportRuns
    \/ \E i \in Runs :
          \/ Arrive(i)
          \/ RunInitializeAgentReturns(i)
          \/ RunInitializeAgentThrows(i)
          \/ RunReceiveInvitationReturns(i)
          \/ RunConnectionStateChanged(i)
          \/ RunMediationReturns(i)
          \/ RunPickupTimeout(i)
          \/ RunBackoffElapsed(i)
          \/ RunShutdownReturns(i)
          \/ RunShutdownThrows(i)
    \/ ConcTick

ConcSpec == ConcInit /\ [][ConcNext]_vars

---------------------------------------------------------------------------
(* The wallet id: the first lines of connectToMediator, in both processors *)

\* number of values Math.random().toString(36).substring(2, 15) takes
NumRandom == 2
\* Date.now() takes the values 0..MaxNow
MaxNow == 2
\* number of runs started
MaxStarts == 3

\* `wallet-${uniqueId}-${Date.now()}`: uniqueId is made of the characters
\* 0-9a-z and the time of digits, so the string determines both parts
walletId(uniqueId, ms) == [uniqueId |-> uniqueId, ms |-> ms]

WalletInit ==
    /\ now = 0
    /\ walletIds = <<>>
    /\ CfgDefault
    /\ RunStart
    /\ ConcLoaded
    /\ CmStart
    /\ basic = BasicStart
    /\ ToolStart

\* connectToMediator is called: Math.random() gives any of its values
StartRun ==
    /\ Len(walletIds) < MaxStarts
    /\ \E uniqueId \in 1..NumRandom :
          walletIds' = Append(walletIds, walletId(uniqueId, now))
    /\ UNCHANGED now
    /\ UNCHANGED <<cfgvars, runvars, concvars, cmvars, basic, toolvars>>

\* a millisecond passes
ClockAdvances ==
    /\ now < MaxNow
    /\ now' = now + 1
    /\ UNCHANGED walletIds
    /\ UNCHANGED <<cfgvars, runvars, concvars, cmvars, basic, toolvars>>

WalletNext == StartRun \/ ClockAdvances

WalletSpec == WalletInit /\ [][WalletNext]_vars

---------------------------------------------------------------------------
(* ConfigManager and the commands of cli.js that use it *)

\* the phase lists given to generateConfig or written by hand
PhaseLists ==
    {<<>>} \cup {<<Flat(d, r)>> : d \in 0..MaxDuration, r \in 0..MaxRate}

\* the documents a configuration file written by hand may hold
HandWritten ==
    {[hasConfig |-> h, hasScenarios |-> s, phases |-> p, name |-> NoName] :
        h \in BOOLEAN, s \in BOOLEAN, p \in PhaseLists}

CmInit ==
    /\ CmStart
    /\ CfgDefault
    /\ RunStart
    /\ ConcLoaded
    /\ IdsStart
    /\ basic = BasicStart
    /\ ToolStart

\* the aggregates a results file of a run may hold
ResultFiles ==
    {NoAggregate, [NoAggregate EXCEPT !.counters["vusers.completed"] = 1]}

\* `test`: createCustomTest with the parsed options, saveConfig to the
\* temporary file, Artillery run on that file (execSync returns or throws),
\* unlink of the temporary file, report (returns or throws); the catch logs
\* and exits
TestCommand ==
    /\ ~artillery.started
    /\ cli = "idle"
    /\ \E wallets \in 1..MaxWallets, duration \in 0..MaxDuration,
          rate \in 0..MaxRate, testType \in TestTypes,
          runReturns \in BOOLEAN, reportReturns \in BOOLEAN,
          rawData \in ResultFiles :
          LET c == createCustomTest(wallets, duration, rate,
                                    DefaultRampDuration, testType)
              temp == saveConfig(c)
          IN
          /\ config' = c
          /\ artillery' = [started |-> TRUE, phases |-> temp.content.phases]
          /\ tempFile' = IF runReturns THEN FALSE ELSE temp.exists
          /\ cli' = IF runReturns /\ reportReturns THEN "completed" ELSE "exited"
          /\ IF runReturns /\ reportReturns
             THEN aggregate' = rawData /\ analysis' = analyzeResults(rawData)
             ELSE UNCHANGED <<aggregate, analysis>>
    /\ UNCHANGED <<file, loaded>>
    /\ UNCHANGED <<cfgvars, runvars, concvars, idvars, basic>>
    /\ UNCHANGED <<wrapvars, monvars>>

\* generateConfig called with the phases given, or with none
CallGenerateConfig ==
    /\ ~artillery.started
    /\ \E phases \in PhaseLists : config' = generateConfig(NoName, phases)
    /\ UNCHANGED <<file, loaded, artillery>>
    /\ UNCHANGED <<cfgvars, runvars, concvars, idvars, basic, toolvars>>

\* saveConfig called with the object generated last
CallSaveConfig ==
    /\ ~artillery.started
    /\ config # NoConfig
    /\ file' = saveConfig(config)
    /\ UNCHANGED <<config, loaded, artillery>>
    /\ UNCHANGED <<cfgvars, runvars, concvars, idvars, basic, toolvars>>

\* a configuration file is written by hand
WriteFile ==
    /\ ~artillery.started
    /\ \E c \in HandWritten : file' = [exists |-> TRUE, content |-> c]
    /\ UNCHANGED <<config, loaded, artillery>>
    /\ UNCHANGED <<cfgvars, runvars, concvars, idvars, basic, toolvars>>

\* `config --validate <file>`: loadConfig
ValidateCommand ==
    /\ loaded' = loadConfig(file)
    /\ loaded' # loaded
    /\ UNCHANGED <<config, file, artillery>>
    /\ UNCHANGED <<cfgvars, runvars, concvars, idvars, basic, toolvars>>

CmNext ==
    \/ TestCommand
    \/ CallGenerateConfig
    \/ CallSaveConfig
    \/ WriteFile
    \/ ValidateCommand

CmSpec == CmInit /\ [][CmNext]_vars

---------------------------------------------------------------------------
(* tests/processor.js: one run of its connectToMediator.  The function has  *)
(* one try block with a catch and no finally; the Agent calls are awaited   *)
(* without a timeout, only the wait for 'completed' is raced with a timer.  *)

\* the wait for the state 'completed'
completionWait == 10000

\* if (events) events.emit(...)
basicEmit(b, name) ==
    IF b.events THEN [b EXCEPT !.emitted = Append(@, name)] ELSE b

\* catch (error): done(error) when done is a function, else the error is
\* thrown again; the agent is not shut down here
basicCatch(b, what) ==
    [b EXCEPT !.pc = "finished", !.threw = what, !.armed = FALSE, !.timer = 0,
              !.doneCalls = IF doneIsFunction THEN Append(@, "error") ELSE @,
              !.rejects = ~doneIsFunction]

\* agent.shutdown() is called and awaited
basicShutdown(b) ==
    [b EXCEPT !.pc = "shutting_down", !.shutdowns = @ + 1,
              !.armed = FALSE, !.timer = 0]

\* after the shutdown: done() when done is a function, else the promise
\* resolves
basicDone(b) ==
    [b EXCEPT !.pc = "finished",
              !.doneCalls = IF doneIsFunction THEN Append(@, "none") ELSE @]

\* the race gave the completed record: connection metrics, then the
\* mediation request
basicCompleted(b) ==
    LET r == basicEmit(basicEmit(b, "didcomm.connection.duration"),
                       "didcomm.connection.success") IN
    [r EXCEPT !.pc = "mediating", !.connection = "completed",
              !.armed = FALSE, !.timer = 0]

\* the race gave null: the final state of the record is read when there is
\* one, then the agent is shut down
basicTimedOut(b) ==
    LET r == [b EXCEPT !.connection = "timeout", !.armed = FALSE, !.timer = 0] IN
    IF b.connectionRecord THEN [r EXCEPT !.pc = "getting"] ELSE basicShutdown(r)

\* receiveInvitationFromUrl returned: the timer is set and the race awaited;
\* a completion seen before wins the race at once
basicInvitationProcessed(b, hasRecord) ==
    LET r == [b EXCEPT !.connectionRecord = hasRecord] IN
    IF b.completed
    THEN basicCompleted(r)
    ELSE [r EXCEPT !.pc = "waiting", !.armed = TRUE, !.timer = completionWait]

\* the listener of ConnectionStateChanged for a record in state 'completed'
basicOnCompleted(b) ==
    LET r == [b EXCEPT !.completed = TRUE] IN
    IF b.pc = "waiting" THEN basicCompleted(r) ELSE r

\* requestMediation returned: mediation metrics, then the pickup
basicMediated(b) ==
    LET r == basicEmit(basicEmit(b, "didcomm.mediation.duration"),
                       "didcomm.mediation.success") IN
    [r EXCEPT !.pc = "picking", !.mediation = "ok"]

\* catch (mediationError): the failure is logged
basicMediationCatch(b) == basicShutdown([b EXCEPT !.mediation = "failed"])

\* initiateMessagePickup returned: pickup metrics
basicPickedUp(b) ==
    LET r == basicEmit(basicEmit(b, "didcomm.pickup.duration"),
                       "didcomm.pickup.success") IN
    basicShutdown([r EXCEPT !.pickup = "ok"])

\* catch (pickupError): the failure is logged and counted
basicPickupCatch(b) ==
    basicShutdown(basicEmit([b EXCEPT !.pickup = "failed"],
                            "didcomm.pickup.failed"))

BasicInit ==
    /\ \E events \in BOOLEAN : basic = [BasicStart EXCEPT !.events = events]
    /\ maxRetries = ConfigMaxRetries(FALSE, 0)
    /\ performanceLogging = TRUE
    /\ doneIsFunction \in BOOLEAN
    /\ RunStart
    /\ ConcLoaded
    /\ IdsStart
    /\ CmStart
    /\ ToolStart

SetBasic(b) ==
    /\ basic' = b
    /\ UNCHANGED <<cfgvars, runvars, concvars, idvars, cmvars, toolvars>>

BasicInitializeAgentReturns ==
    /\ basic.pc = "initializing"
    /\ SetBasic([basic EXCEPT !.pc = "connecting", !.agent = TRUE])

BasicInitializeAgentThrows ==
    /\ basic.pc = "initializing"
    /\ SetBasic(basicCatch(basic, "initialize"))

\* the record may reach 'completed' at any moment before the shutdown
BasicConnectionCompleted ==
    /\ basic.pc \in {"connecting", "waiting", "getting"}
    /\ ~basic.completed
    /\ SetBasic(basicOnCompleted(basic))

BasicReceiveInvitationReturns ==
    /\ basic.pc = "connecting"
    /\ \E hasRecord \in BOOLEAN :
          SetBasic(basicInvitationProcessed(basic, hasRecord))

BasicReceiveInvitationThrows ==
    /\ basic.pc = "connecting"
    /\ SetBasic(basicCatch(basic, "invitation"))

BasicCompletionTimeout ==
    /\ basic.pc = "waiting" /\ basic.armed /\ basic.timer = 0
    /\ SetBasic(basicTimedOut(basic))

BasicGetByIdReturns ==
    /\ basic.pc = "getting"
    /\ SetBasic(basicShutdown(basic))

BasicGetByIdThrows ==
    /\ basic.pc = "getting"
    /\ SetBasic(basicCatch(basic, "getById"))

BasicMediationReturns ==
    /\ basic.pc = "mediating"
    /\ SetBasic(basicMediated(basic))

BasicMediationThrows ==
    /\ basic.pc = "mediating"
    /\ SetBasic(basicMediationCatch(basic))

BasicPickupReturns ==
    /\ basic.pc = "picking"
    /\ SetBasic(basicPickedUp(basic))

BasicPickupThrows ==
    /\ basic.pc = "picking"
    /\ SetBasic(basicPickupCatch(basic))

BasicShutdownReturns ==
    /\ basic.pc = "shutting_down"
    /\ SetBasic(basicDone(basic))

BasicShutdownThrows ==
    /\ basic.pc = "shutting_down"
    /\ SetBasic(basicCatch(basic, "shutdown"))

\* time passes while the race is awaited
BasicTick ==
    /\ basic.pc = "waiting" /\ basic.armed /\ basic.timer > 0
    /\ SetBasic([basic EXCEPT !.timer = @ - Min(TickMs, @)])

BasicNext ==
    \/ BasicInitializeAgentReturns
    \/ BasicInitializeAgentThrows
    \/ BasicConnectionCompleted
    \/ BasicReceiveInvitationReturns
    \/ BasicReceiveInvitationThrows
    \/ BasicCompletionTimeout
    \/ BasicGetByIdReturns
    \/ BasicGetByIdThrows
    \/ BasicMediationReturns
    \/ BasicMediationThrows
    \/ BasicPickupReturns
    \/ BasicPickupThrows
    \/ BasicShutdownReturns
    \/ BasicShutdownThrows
    \/ BasicTick

BasicSpec == BasicInit /\ [][BasicNext]_vars

---------------------------------------------------------------------------
(* run-artillery.sh: NODE_OPTIONS is split into tokens at white space, the  *)
(* preload and the base flags are appended when missing, the tokens are     *)
(* joined again and exported, Node is started.                              *)

\* number of tokens of the initial NODE_OPTIONS
MaxTokens == 3
\* number of times the wrapper runs on the environment it exported
MaxLaunches == 2

\* ${SCRIPT_DIR}/preload-fetch.js
PreloadPath == "/dir/preload-fetch.js"

BASE_FLAGS == <<"--no-warnings", "--dns-result-order=ipv4first">>

\* the tokens NODE_OPTIONS is made of
Tokens == {"--require", PreloadPath, "/tmp/preload-fetch.js",
           "--no-warnings", "--dns-result-order=ipv4first", "--inspect"}

\* [[ "$t" == *preload-fetch.js* ]]
MatchesPreloadName(tok) == tok \in {PreloadPath, "/tmp/preload-fetch.js"}

\* add_flag: the flag is appended unless a token equal to it is there
add_flag(current, flag) ==
    IF \E k \in DOMAIN current : current[k] = flag
    THEN current ELSE Append(current, flag)

\* the loop that sets NEED_PRELOAD: 0 as soon as a token --require is
\* followed by the path, or a token other than --require matches the name
NEED_PRELOAD(current) ==
    ~ \E k \in DOMAIN current :
          IF current[k] = "--require"
          THEN k + 1 \in DOMAIN current /\ current[k + 1] = PreloadPath
          ELSE MatchesPreloadName(current[k])

RECURSIVE addFlags(_, _)
addFlags(current, flags) ==
    IF flags = <<>> THEN current
    ELSE addFlags(add_flag(current, Head(flags)), Tail(flags))

\* the value the script exports as NODE_OPTIONS
wrapper(current) ==
    addFlags(IF NEED_PRELOAD(current)
             THEN current \o <<"--require", PreloadPath>>
             ELSE current,
             BASE_FLAGS)

\* a value Node accepts: --require takes a path, a path follows --require
WellFormed(current) ==
    \A k \in DOMAIN current :
        /\ current[k] = "--require" =>
              k + 1 \in DOMAIN current /\ MatchesPreloadName(current[k + 1])
        /\ MatchesPreloadName(current[k]) =>
              k - 1 \in DOMAIN current /\ current[k - 1] = "--require"

WrapInit ==
    /\ nodeOptions \in {c \in UNION {[1..k -> Tokens] : k \in 0..MaxTokens} :
                            WellFormed(c)}
    /\ launches = 0
    /\ ReportStart /\ CliStart /\ MonStart
    /\ CfgDefault
    /\ RunStart
    /\ ConcLoaded
    /\ IdsStart
    /\ CmStart
    /\ basic = BasicStart

\* the script runs; the Node process it starts inherits the environment
RunWrapper ==
    /\ launches < MaxLaunches
    /\ nodeOptions' = wrapper(nodeOptions)
    /\ launches' = launches + 1
    /\ UNCHANGED <<cfgvars, runvars, concvars, idvars, cmvars, basic>>
    /\ UNCHANGED <<reportvars, clivars, monvars>>

WrapNext == RunWrapper

WrapSpec == WrapInit /\ [][WrapNext]_vars

---------------------------------------------------------------------------
(* TestReporter on any results file *)

\* the counters of the results file take the values 0..MaxCount
MaxCount == 1

ReportInit ==
    /\ aggregate \in [counters : [CounterKeys -> 0..MaxCount],
                       connection : [present : BOOLEAN,
                                     p95 : {HighLatency, HighLatency + 1}]]
    /\ analysis = NoAnalysis
    /\ WrapStart /\ CliStart /\ MonStart
    /\ CfgDefault
    /\ RunStart
    /\ ConcLoaded
    /\ IdsStart
    /\ CmStart
    /\ basic = BasicStart

\* `report <file>`: generateEnhancedReport
GenerateReport ==
    /\ ~analysis.generated
    /\ analysis' = analyzeResults(aggregate)
    /\ UNCHANGED aggregate
    /\ UNCHANGED <<cfgvars, runvars, concvars, idvars, cmvars, basic>>
    /\ UNCHANGED <<wrapvars, clivars, monvars>>

ReportNext == GenerateReport

ReportSpec == ReportInit /\ [][ReportNext]_vars

---------------------------------------------------------------------------
(* PerformanceMonitor: start, stop and the calls of monitorLoop *)

\* number of calls of monitorLoop
MaxLoops == 3
\* number of samples collected
MaxSamples == 10
\* the results are saved whenever data.length is a multiple of this
SaveEvery == 10

\* saveResults: the output file holds the samples collected so far
saveResults(n) == n

\* the test of `while (this.monitoring)`: the loop calls collectMetrics and
\* awaits it, or returns
loopTest(m) == IF m THEN "collecting" ELSE "ended"

MonInit ==
    /\ MonStart
    /\ WrapStart /\ ReportStart /\ CliStart
    /\ CfgDefault
    /\ RunStart
    /\ ConcLoaded
    /\ IdsStart
    /\ CmStart
    /\ basic = BasicStart

MonUnchanged ==
    /\ UNCHANGED <<cfgvars, runvars, concvars, idvars, cmvars, basic>>
    /\ UNCHANGED <<wrapvars, reportvars, clivars>>

\* start(): nothing when monitoring; else the flag is set and monitorLoop is
\* called without await: it runs up to its first await
Start ==
    /\ IF monitoring
       THEN UNCHANGED <<monitoring, loops>>
       ELSE /\ Len(loops) < MaxLoops
            /\ monitoring' = TRUE
            /\ loops' = Append(loops, loopTest(TRUE))
    /\ UNCHANGED <<samples, saved>>
    /\ MonUnchanged

\* stop(): nothing when not monitoring; else the flag is cleared and the
\* results are saved
Stop ==
    /\ IF monitoring
       THEN monitoring' = FALSE /\ saved' = saveResults(samples)
       ELSE UNCHANGED <<monitoring, saved>>
    /\ UNCHANGED <<loops, samples>>
    /\ MonUnchanged

\* collectMetrics resolves in loop l: the sample is pushed, the results are
\* saved every SaveEvery samples, the loop sleeps
CollectReturns(l) ==
    /\ loops[l] = "collecting"
    /\ samples < MaxSamples
    /\ samples' = samples + 1
    /\ saved' = IF samples' % SaveEvery = 0 THEN saveResults(samples') ELSE saved
    /\ loops' = [loops EXCEPT ![l] = "sleeping"]
    /\ UNCHANGED monitoring
    /\ MonUnchanged

\* collectMetrics rejects in loop l: the catch logs, the loop tests the flag
CollectThrows(l) ==
    /\ loops[l] = "collecting"
    /\ loops' = [loops EXCEPT ![l] = loopTest(monitoring)]
    /\ UNCHANGED <<monitoring, samples, saved>>
    /\ MonUnchanged

\* the sleep of loop l ends: the loop tests the flag
SleepEnds(l) ==
    /\ loops[l] = "sleeping"
    /\ loops' = [loops EXCEPT ![l] = loopTest(monitoring)]
    /\ UNCHANGED <<monitoring, samples, saved>>
    /\ MonUnchanged

MonNext ==
    \/ Start
    \/ Stop
    \/ \E l \in 1..Len(loops) :
          \/ CollectReturns(l)
          \/ CollectThrows(l)
          \/ SleepEnds(l)

MonSpec == MonInit /\ [][MonNext]_vars

---------------------------------------------------------------------------
(* Properties *)

Range(seq) == {seq[i] : i \in DOMAIN seq}
Finished == pc = "finished"
Emitted(name) == Count(emitted, name)

\* C1: a run whose connection or mediation stage failed (retryWithBackoff
\* threw after its last attempt) is a failed run: didcomm.test.failed is
\* emitted, didcomm.test.success is not, and done received the error; no run
\* emits both didcomm.test.success and didcomm.test.failed.
C1_StageFailureFailsRun ==
    /\ \A st \in {"connection", "mediation"} :
          results[st] = "failed" =>
              /\ raised[st].attempt = maxRetries
              /\ performanceLogging => Emitted("didcomm.test.failed") >= 1
              /\ Emitted("didcomm.test.success") = 0
              /\ doneIsFunction => "error" \in Range(doneCalls)
    /\ ~(Emitted("didcomm.test.success") > 0 /\ Emitted("didcomm.test.failed") > 0)

C1_Witness ==
    /\ Finished /\ performanceLogging /\ doneIsFunction
    /\ results["connection"] = "ok" /\ results["mediation"] = "failed"
    /\ calls["mediation"] = DefaultMaxRetries
    /\ Emitted("didcomm.test.failed") >= 1

\* C2: when connection and mediation succeeded and the pickup stage failed
\* (every attempt threw or timed out), the run is a success:
\* didcomm.pickup.failed once, no didcomm.pickup.success, didcomm.test.success
\* once, no didcomm.test.failed, and done is called once, without an error.
C2_PickupFailureNotFatal ==
    results["pickup"] = "failed" =>
        /\ results["connection"] = "ok" /\ results["mediation"] = "ok"
        /\ calls["pickup"] = maxRetries
        /\ performanceLogging =>
              /\ Emitted("didcomm.pickup.failed") = 1
              /\ Emitted("didcomm.pickup.success") = 0
              /\ Emitted("didcomm.test.success") = 1
              /\ Emitted("didcomm.test.failed") = 0
        /\ ~rejects
        /\ "error" \notin Range(doneCalls)
        /\ (Finished /\ doneIsFunction) => doneCalls = <<"none">>

C2_Witness ==
    /\ Finished /\ performanceLogging /\ doneIsFunction
    /\ results["pickup"] = "failed" /\ timeouts["pickup"] = DefaultMaxRetries
    /\ doneCalls = <<"none">>

\* C3: a failed connection (mediation) stage emits didcomm.connection.failed
\* (didcomm.mediation.failed) and didcomm.test.failed exactly once, and a
\* finished run has didcomm.test.success + didcomm.test.failed = 1.
C3_FailureCountedOnce ==
    (performanceLogging /\ maxRetries >= 1) =>
        /\ results["connection"] = "failed" =>
              /\ Emitted("didcomm.connection.failed") >= 1
              /\ Emitted("didcomm.test.failed") = 1
        /\ results["mediation"] = "failed" =>
              /\ Emitted("didcomm.mediation.failed") >= 1
              /\ Emitted("didcomm.test.failed") = 1
        /\ Finished =>
              Emitted("didcomm.test.success") + Emitted("didcomm.test.failed") = 1

\* C4: with maxRetries = M >= 1, retryWithBackoff calls the operation at most
\* M times, each call after the first follows a wait, the k-th wait is
\* baseDelay * 2^(k-1) ms, a success ends the loop with the result of that
\* call, and the M-th failure is thrown with no wait after it.
C4_RetryWithBackoff ==
    maxRetries >= 1 =>
        \A st \in Stages :
            /\ calls[st] <= maxRetries
            /\ \A k \in DOMAIN waits[st] : waits[st][k] = baseDelay * Pow2(k - 1)
            /\ Len(waits[st]) =
                  IF stage = st /\ pc = "backoff" THEN calls[st]
                  ELSE IF calls[st] = 0 THEN 0 ELSE calls[st] - 1
            /\ results[st] = "failed" =>
                  /\ calls[st] = maxRetries
                  /\ raised[st].attempt = maxRetries
                  /\ Len(waits[st]) = maxRetries - 1
            /\ results[st] = "ok" => raised[st] = NoError
            /\ (st = "connection" /\ results[st] = "ok") =>
                  connectionRecord = calls[st]

C4_Witness ==
    /\ maxRetries = DefaultMaxRetries
    /\ results["mediation"] = "failed"
    /\ waits["mediation"] = <<1000, 2000>>
    /\ results["connection"] = "ok" /\ calls["connection"] = 2
    /\ waits["connection"] = <<1000>>

\* C5: the Agent's mediation request is invoked only after the connection
\* stage returned a connection that reached 'completed', the Agent's pickup
\* only after the mediation stage returned; after a failed stage no later
\* stage operation is invoked.
C5_StagesInSequence ==
    /\ calls["mediation"] > 0 =>
          /\ results["connection"] = "ok"
          /\ connectionRecord \in 1..maxRetries
          /\ connectionRecord \notin conns
    /\ calls["pickup"] > 0 => results["mediation"] = "ok"
    /\ results["connection"] = "failed" =>
          calls["mediation"] = 0 /\ calls["pickup"] = 0
    /\ results["mediation"] = "failed" => calls["pickup"] = 0

C5_Witness ==
    /\ calls["pickup"] > 0 /\ results["mediation"] = "ok"
    /\ calls["connection"] = 2 /\ connectionRecord = 2 /\ 1 \in conns

C6_Bounded ==
    /\ pc = "mediating" => armed /\ elapsed + timer = mediationTimeout
    /\ pc = "picking" => armed /\ elapsed + timer = pickupTimeout
    /\ \A st \in {"mediation", "pickup"} :
          /\ timeouts[st] <= calls[st]
          /\ calls[st] > 0 => calls[st] <= maxRetries
          /\ (calls[st] > 0 /\ timeouts[st] = maxRetries) =>
                /\ results[st] = "failed"
                /\ raised[st] = [kind |-> "timeout", attempt |-> maxRetries]

\* C6: every mediation and pickup attempt runs under its timeout: while the
\* Agent call is pending no more than mediationTimeout (pickupTimeout) ms
\* pass before the attempt is rejected with the timeout error; a stage whose
\* calls all timed out has failed after maxRetries attempts, and a stage that
\* started always ends.
C6_AttemptsTimeOut ==
    /\ []C6_Bounded
    /\ (pc = "mediating") ~> (results["mediation"] # "none")
    /\ (pc = "picking") ~> (results["pickup"] # "none")

C6_Witness ==
    /\ maxRetries = DefaultMaxRetries
    /\ results["mediation"] = "failed"
    /\ timeouts["mediation"] = DefaultMaxRetries
    /\ abandoned = DefaultMaxRetries

\* C7: every connection attempt ends no later than connectionTimeout after
\* it called the Agent's connect operation.
C7_ConnectionAttemptBounded ==
    pc \in {"connecting", "waiting"} => elapsed <= connectionTimeout

\* C8: didcomm.connection.duration and didcomm.connection.success are
\* emitted exactly once in a run whose connection stage succeeded and never
\* in a run whose connection stage failed.
C8_ConnectionMetricsOnce ==
    (performanceLogging /\ maxRetries >= 1) =>
        /\ results["connection"] = "ok" =>
              /\ Emitted("didcomm.connection.duration") = 1
              /\ Emitted("didcomm.connection.success") = 1
        /\ results["connection"] = "failed" =>
              /\ Emitted("didcomm.connection.duration") = 0
              /\ Emitted("didcomm.connection.success") = 0

StageRank(name) ==
    CASE name \in {"didcomm.connection.duration", "didcomm.connection.success",
                   "didcomm.connection.failed"} -> 1
      [] name \in {"didcomm.mediation.duration", "didcomm.mediation.success",
                   "didcomm.mediation.failed"} -> 2
      [] name \in {"didcomm.pickup.duration", "didcomm.pickup.success",
                   "didcomm.pickup.failed"} -> 3
      [] OTHER -> 4

\* C9: the events of a run are emitted in stage order: connection events,
\* then mediation events, then pickup events, then the test outcome.
C9_EventsInStageOrder ==
    maxRetries >= 1 =>
        \A i, j \in DOMAIN emitted :
            i < j => StageRank(emitted[i]) <= StageRank(emitted[j])

C10_ShutdownOnce ==
    /\ shutdowns <= 1
    /\ ~agent => shutdowns = 0
    /\ (agent /\ pc \in {"shutting_down", "finished"}) => shutdowns = 1
    /\ shutdownFailed => Finished

C10_ShutdownStep ==
    (pc = "shutting_down" /\ pc' = "finished") =>
        /\ emitted' = emitted
        /\ rejects' = rejects
        /\ errors' = errors
        /\ ("error" \in Range(doneCalls')) = ("error" \in Range(doneCalls))
        /\ doneCalls' = IF doneIsFunction THEN Append(doneCalls, "none")
                        ELSE doneCalls

\* C10: a run whose agent was initialized calls agent.shutdown() exactly
\* once before it finishes, whatever the stages' outcome; whether the
\* shutdown returns or throws, the step leaves the emitted counters and
\* the error given to done (or thrown) as they were.
C10_ShutdownBestEffort == []C10_ShutdownOnce /\ [][C10_ShutdownStep]_vars

C10_Witness ==
    /\ Finished /\ shutdownFailed /\ shutdowns = 1
    /\ results["pickup"] = "ok" /\ doneIsFunction /\ doneCalls = <<"none">>

FatalFailure ==
    \/ ~agent
    \/ results["connection"] = "failed"
    \/ results["mediation"] = "failed"

C11_WitnessContained ==
    /\ Finished /\ ~doneIsFunction /\ ~rejects
    /\ results["pickup"] = "failed" /\ shutdownFailed

AllFinished == \A i \in Runs : runs[i].pc = "finished"

RECURSIVE EmittedBy(_, _)
EmittedBy(S, n) ==
    IF S = {} THEN 0
    ELSE LET i == CHOOSE j \in S : TRUE IN
         Count(runs[i].emitted, n) + EmittedBy(S \ {i}, n)

\* what a run emits when connect and mediation succeed and every pickup
\* attempt times out
PickupTimedOutEvents ==
    <<"didcomm.connection.duration", "didcomm.connection.success",
      "didcomm.mediation.duration", "didcomm.mediation.success",
      "didcomm.pickup.failed",
      "didcomm.test.total_duration", "didcomm.test.success">>

\* C12: when metric emission is on and maxRetries >= 1, NumRuns concurrent
\* runs in which the agent initializes, connect and mediation succeed and every pickup attempt times
\* out give, under every interleaving, the totals connection.success =
\* mediation.success = pickup.failed = test.success = NumRuns (no
\* pickup.success, no test.failed); each run emits the same events as a run
\* executing alone, and at every moment each total is the sum of what the
\* runs emitted.
C12_TotalsEqualRuns ==
    /\ \A n \in Counters : totals[n] = EmittedBy(Runs, n)
    /\ (performanceLogging /\ maxRetries >= 1) =>
          /\ \A i \in Runs :
                (runs[i].pc = "finished" /\ runs[i].agent) =>
                    /\ runs[i].emitted = PickupTimedOutEvents
                    /\ runs[i].timeouts["pickup"] = maxRetries
                    /\ ~runs[i].rejects
          /\ (AllFinished /\ \A i \in Runs : runs[i].agent) =>
                /\ totals["didcomm.connection.success"] = NumRuns
                /\ totals["didcomm.mediation.success"] = NumRuns
                /\ totals["didcomm.pickup.failed"] = NumRuns
                /\ totals["didcomm.test.success"] = NumRuns
                /\ totals["didcomm.pickup.success"] = 0
                /\ totals["didcomm.test.failed"] = 0

C12_Witness ==
    /\ AllFinished /\ performanceLogging /\ maxRetries = DefaultMaxRetries
    /\ \A i \in Runs : runs[i].agent
    /\ totals["didcomm.pickup.failed"] = NumRuns
    /\ totals["didcomm.test.success"] = NumRuns
    /\ \A i \in Runs : runs[i].timeouts["pickup"] = DefaultMaxRetries

\* the ceiling C13 speaks of
ConcurrencyCeiling == 1

\* C13 as stated: at no instant are more than ConcurrencyCeiling runs of
\* connectToMediator in a non-terminal state.
C13_AtMostCeilingActive ==
    Cardinality({i \in Runs : Active(i)}) <= ConcurrencyCeiling

\* C14: when INVITATION_URL is not set the module fails when it is loaded:
\* it is never loaded, no run of connectToMediator is started, no agent is
\* created and no counter is incremented.
C14_MissingUrlFailsAtLoad ==
    ~invitationUrlSet =>
        /\ module \in {"unloaded", "failed"}
        /\ \A i \in Runs : runs[i] = NotStarted
        /\ \A n \in Counters : totals[n] = 0

C14_Witness == ~invitationUrlSet /\ module = "failed"

\* C16 as stated: any two runs, also two runs started in the same
\* millisecond, have different walletId values.
C16_WalletIdsUnique ==
    \A i, j \in DOMAIN walletIds : i # j => walletIds[i] # walletIds[j]

\* the phase list is not empty and every phase lasts more than 0 seconds
ValidPhases(phases) ==
    /\ phases # <<>>
    /\ \A k \in DOMAIN phases : phases[k].duration > 0

\* C15 as stated: a configuration with no phase or with a phase of duration
\* <= 0 is never produced by generateConfig / createCustomTest, never
\* accepted by loadConfig and never given to Artillery.
C15_InvalidPhasesRejected ==
    /\ config # NoConfig => ValidPhases(config.phases)
    /\ loaded.status = "ok" => ValidPhases(loaded.content.phases)
    /\ artillery.started => ValidPhases(artillery.phases)

\* twice the number of starts a phase list schedules: arrivalRate * duration
\* for a flat phase, (arrivalRate + rampTo) * duration / 2 for a ramp
RECURSIVE TwiceStarts(_)
TwiceStarts(phases) ==
    IF phases = <<>> THEN 0
    ELSE LET ph == Head(phases) IN
         ph.duration * (ph.arrivalRate + ph.rampTo) + TwiceStarts(Tail(phases))

\* C20 as stated, for inputs that give phases of positive duration and a
\* positive first arrival rate: the phases createCustomTest produces schedule
\* as many wallet starts as the value of `wallets`.
C20_WalletsScheduled ==
    ( /\ config.name.testType \in TestTypes
      /\ ValidPhases(config.phases)
      /\ config.phases[1].arrivalRate >= 1 ) =>
        TwiceStarts(config.phases) = 2 * config.name.wallets

BasicFinished == basic.pc = "finished"

\* C17 as stated: in the basic processor a run whose connection did not
\* complete within the wait, or whose mediation request failed, hands an
\* error to the completion callback and never calls it as a plain success.
C17_BasicFailureReported ==
    ( /\ BasicFinished /\ doneIsFunction
      /\ basic.connection = "timeout" \/ basic.mediation = "failed" ) =>
        /\ "error" \in Range(basic.doneCalls)
        /\ "none" \notin Range(basic.doneCalls)

\* C18 as stated: in the basic processor every finished run whose agent was
\* initialized called agent.shutdown(), and a run whose only failure is the
\* one of agent.shutdown() is not reported with an error.
C18_BasicShutdownBestEffort ==
    BasicFinished =>
        /\ basic.agent => basic.shutdowns = 1
        /\ basic.threw = "shutdown" =>
              /\ "error" \notin Range(basic.doneCalls)
              /\ ~basic.rejects

\* C19 as stated: in the basic processor a run given an events emitter whose
\* mediation request was answered has incremented exactly one of didcomm.mediation.success (the
\* request returned) and didcomm.mediation.failed (the request threw).
C19_BasicMediationCounted ==
    basic.events =>
        /\ basic.mediation = "ok" =>
              /\ Count(basic.emitted, "didcomm.mediation.success") = 1
              /\ Count(basic.emitted, "didcomm.mediation.failed") = 0
        /\ basic.mediation = "failed" =>
              /\ Count(basic.emitted, "didcomm.mediation.success") = 0
              /\ Count(basic.emitted, "didcomm.mediation.failed") = 1

\* C22 as stated: a completion callback is invoked exactly once per finished
\* run, and never before the shutdown attempt has finished.
C22_DoneCalledOnceAfterShutdown ==
    doneIsFunction =>
        /\ Finished => Len(doneCalls) = 1
        /\ ~Finished => doneCalls = <<>>

\* C23 as stated: a stage never returns without its Agent operation having
\* been called, and didcomm.test.success is only emitted by a run whose
\* connect and mediation operations were called and succeeded.
C23_NoSuccessWithoutCall ==
    /\ \A st \in Stages : results[st] = "ok" => calls[st] >= 1
    /\ Emitted("didcomm.test.success") > 0 =>
          /\ calls["connection"] >= 1
          /\ calls["mediation"] >= 1

\* C25: an Agent call that answers after its attempt timed out emits
\* nothing: within one run didcomm.mediation.success and
\* didcomm.pickup.success are each emitted at most once, and never for a
\* stage that has failed.
C25_AbandonedAttemptSilent ==
    /\ Emitted("didcomm.mediation.success") <= 1
    /\ Emitted("didcomm.pickup.success") <= 1
    /\ results["mediation"] = "failed" => Emitted("didcomm.mediation.success") = 0
    /\ results["pickup"] = "failed" => Emitted("didcomm.pickup.success") = 0
    /\ \A st \in {"mediation", "pickup"} :
          Emitted("didcomm." \o st \o ".success") = 1 => results[st] = "ok"

\* the three mediation attempts timed out and one of the abandoned calls
\* has answered since
C25_Witness ==
    /\ performanceLogging /\ Finished
    /\ timeouts["mediation"] = DefaultMaxRetries
    /\ abandoned < DefaultMaxRetries
    /\ results["mediation"] = "failed"
    /\ Emitted("didcomm.mediation.success") = 0

\* C24 as stated: no completion is missed, so an attempt that is still
\* waiting for 'completed' (or times out waiting) is one whose connection
\* has not reached that state.
C24_NoCompletionMissed == pc = "waiting" => attempt \in conns

\* C26 as stated: the value endMediation (endPickup) emits as duration, the
\* time since startMediation() (startPickup()), is the latency of the attempt
\* that succeeded and does not exceed mediationTimeout (pickupTimeout).
C26_DurationOfSuccessfulAttempt ==
    [][ /\ (pc = "mediating" /\ results'["mediation"] = "ok") =>
              sinceStart = elapsed /\ sinceStart <= mediationTimeout
        /\ (pc = "picking" /\ results'["pickup"] = "ok") =>
              sinceStart = elapsed /\ sinceStart <= pickupTimeout ]_vars

\* C21 as stated: whatever NODE_OPTIONS was, Node is started with
\* NODE_OPTIONS holding --require followed by the preload path and both
\* base flags, and running the script on that value changes nothing.
C21_PreloadAlwaysRequired ==
    launches >= 1 =>
        /\ \E k \in DOMAIN nodeOptions :
              /\ nodeOptions[k] = "--require"
              /\ k + 1 \in DOMAIN nodeOptions
              /\ nodeOptions[k + 1] = PreloadPath
        /\ \A k \in DOMAIN BASE_FLAGS : BASE_FLAGS[k] \in Range(nodeOptions)
        /\ wrapper(nodeOptions) = nodeOptions

\* C28 as stated: a result without failures (vusers.failed = 0,
\* didcomm.pickup.failed = 0, connection P95 not above 10000 ms) gets no
\* recommendation, whatever its success counters are.
C28_NoFailureNoRecommendation ==
    ( /\ analysis.generated
      /\ aggregate.counters["vusers.failed"] = 0
      /\ aggregate.counters["didcomm.pickup.failed"] = 0
      /\ aggregate.connection.present => aggregate.connection.p95 <= HighLatency )
    => analysis.recommendations = <<>>

\* the runs that ended in the catch block
RunsFailed ==
    {i \in Runs : \E k \in 1..Len(runs[i].errors) : runs[i].errors[k] = "test"}

\* C27 as stated: with metric emission on and maxRetries >= 1, the
\* overallSuccessRate reported for NumRuns finished runs is
\* (runs that ended successfully) / NumRuns.
C27_OverallRateIsShareOfRuns ==
    (analysis.generated /\ performanceLogging /\ maxRetries >= 1) =>
        analysis.overallSuccessRate.num * NumRuns
            = (NumRuns - Cardinality(RunsFailed)) * analysis.overallSuccessRate.den

\* C29 as stated: once the `test` command has ended, by completing or by
\* exiting, the temporary configuration file no longer exists.
C29_TempFileRemoved == cli # "idle" => ~tempFile

\* the calls of monitorLoop that have not returned
ActiveLoops == {l \in 1..Len(loops) : loops[l] # "ended"}

\* C30 as stated: whatever start() and stop() calls were made, at most one
\* monitoring loop is active.
C30_AtMostOneLoop == Cardinality(ActiveLoops) <= 1

\* two loops collect at once, the older one after its sleep has ended
TwoLoopsSampling ==
    /\ monitoring
    /\ Cardinality({l \in 1..Len(loops) : loops[l] = "collecting"}) >= 2
    /\ samples >= 3

====
